---------------------------- MODULE Spec2Model ----------------------------
(***************************************************************************)
(* Model of client_mining_p/blockchain.py: the Blockchain class (chain,    *)
(* current_transactions, new_block, hash, valid_proof, new_transaction)    *)
(* and the Flask routes that drive it (/mine, /transactions/new).          *)
(*                                                                         *)
(* Strings and bytes are sequences of character codes, so json.dumps,      *)
(* str.encode, the f-string of valid_proof and hexdigest are computed and  *)
(* not assumed.  SHA-256 itself is replaced by a small multiplicative hash *)
(* of DigestHexLen hexadecimal digits, and the difficulty prefix is        *)
(* shortened accordingly, so that valid proofs exist in a small range.     *)
(* Every Python dict created by new_transaction carries an object          *)
(* identity (oid), which json.dumps does not see.                          *)
(***************************************************************************)
EXTENDS Integers, Sequences, FiniteSets, TLC

VARIABLES chain, current_transactions, response, nextOid, rewards, hints,
          threads, heap

vars == <<chain, current_transactions, response, nextOid, rewards, hints,
          threads, heap>>

(* The state of the request threads, used only when requests overlap. *)
conc == <<threads, heap>>

---------------------------------------------------------------------------
(* Bounds of the model. *)

MaxChain == 3
MaxPool == 2
MaxTime == 2
MaxProof == 5
MaxSealProof == 0
MaxAmount == 1
MaxOid == 3

(* Number of values of the modelled digest (2^256 for SHA-256). *)
DigestRange == 64

---------------------------------------------------------------------------
(* Character codes of the string literals of the program. *)

K_index == <<105, 110, 100, 101, 120>>
K_timestamp == <<116, 105, 109, 101, 115, 116, 97, 109, 112>>
K_transactions == <<116, 114, 97, 110, 115, 97, 99, 116, 105, 111, 110, 115>>
K_proof == <<112, 114, 111, 111, 102>>
K_previous_hash == <<112, 114, 101, 118, 105, 111, 117, 115, 95, 104, 97, 115, 104>>
K_sender == <<115, 101, 110, 100, 101, 114>>
K_recipient == <<114, 101, 99, 105, 112, 105, 101, 110, 116>>
K_amount == <<97, 109, 111, 117, 110, 116>>

(* sender="0" of the reward transaction *)
RewardSender == <<48>>

(* amount=1 of the reward transaction *)
RewardAmount == 1

(* proof=100 of the genesis block *)
GenesisProof == 100

(* Inputs of the operations: senders "0" and "A", recipient "m1", miner id *)
(* "m1", clock readings, proofs and amounts.                               *)
Senders == {<<48>>, <<65>>}
Recipients == {<<109, 49>>}
MinerIds == {<<109, 49>>}
Times == 1..MaxTime
Proofs == 0..MaxProof
SealProofs == 0..MaxSealProof
Amounts == 1..MaxAmount

---------------------------------------------------------------------------
(* Python values. *)

PyNone == [t |-> "none", v |-> 0]
PyInt(n) == [t |-> "int", v |-> n]
PyFloat(n) == [t |-> "float", v |-> n]
PyStr(s) == [t |-> "str", v |-> s]
PyList(l) == [t |-> "list", v |-> l]
PyDict(items) == [t |-> "dict", v |-> items]

(* bool(x) as used by `or`: None, 0, 0.0 and empty containers are false. *)
Truthy(x) ==
    CASE x.t = "none" -> FALSE
      [] x.t = "int" -> x.v # 0
      [] x.t = "float" -> x.v # 0
      [] OTHER -> Len(x.v) > 0

(* previous_hash=1 of the genesis block *)
Sentinel == PyInt(1)

---------------------------------------------------------------------------
(* Text conversions. *)

RECURSIVE Str(_)
(* str(n) for a non-negative integer: its decimal digits. *)
Str(n) == IF n < 10 THEN <<48 + n>> ELSE Str(n \div 10) \o <<48 + (n % 10)>>

(* repr of a float with an integral value: "3.0" *)
FloatRepr(n) == Str(n) \o <<46, 48>>

(* str.encode(): UTF-8; every character here is ASCII, one byte each. *)
Encode(s) == [i \in 1..Len(s) |-> s[i] % 256]

(* str(b) of a bytes object, as an f-string renders it: b'...' *)
BytesRepr(b) == <<98, 39>> \o [i \in 1..Len(b) |-> b[i]] \o <<39>>

RECURSIVE LexLess(_, _)
(* a < b on strings *)
LexLess(a, b) ==
    IF Len(b) = 0 THEN FALSE
    ELSE IF Len(a) = 0 THEN TRUE
    ELSE IF a[1] < b[1] THEN TRUE
    ELSE IF a[1] > b[1] THEN FALSE
    ELSE LexLess(Tail(a), Tail(b))

RECURSIVE InsertItem(_, _)
InsertItem(item, sorted) ==
    IF Len(sorted) = 0 THEN <<item>>
    ELSE IF LexLess(item[1], sorted[1][1]) THEN <<item>> \o sorted
    ELSE <<sorted[1]>> \o InsertItem(item, Tail(sorted))

(* Variant: sort_keys is left out, the items stay in insertion order. *)
SortItems_unsorted(items) == items

RECURSIVE SortItems(_)
(* sort_keys=True: the items of a dict ordered by key *)
SortItems(items) ==
    IF Len(items) = 0 THEN <<>>
    ELSE InsertItem(items[1], SortItems(Tail(items)))

RECURSIVE JsonValue(_)
RECURSIVE JsonItems(_)
RECURSIVE JsonList(_)
(* json.dumps(x, sort_keys=True) with the default separators *)
JsonValue(x) ==
    CASE x.t = "int" -> Str(x.v)
      [] x.t = "float" -> FloatRepr(x.v)
      [] x.t = "str" -> <<34>> \o x.v \o <<34>>
      [] x.t = "list" -> <<91>> \o JsonList(x.v) \o <<93>>
      [] x.t = "dict" -> <<123>> \o JsonItems(SortItems(x.v)) \o <<125>>
      [] OTHER -> <<110, 117, 108, 108>>

JsonItems(items) ==
    IF Len(items) = 0 THEN <<>>
    ELSE <<34>> \o items[1][1] \o <<34, 58, 32>> \o JsonValue(items[1][2])
         \o (IF Len(items) = 1 THEN <<>> ELSE <<44, 32>> \o JsonItems(Tail(items)))

JsonList(l) ==
    IF Len(l) = 0 THEN <<>>
    ELSE JsonValue(l[1])
         \o (IF Len(l) = 1 THEN <<>> ELSE <<44, 32>> \o JsonList(Tail(l)))

(* The dict built by new_transaction, keys in insertion order. *)
TransactionDict(tx) ==
    PyDict(<< <<K_sender, PyStr(tx.sender)>>,
              <<K_recipient, PyStr(tx.recipient)>>,
              <<K_amount, PyInt(tx.amount)>> >>)

(* The dict built by new_block, keys in insertion order. *)
BlockDict(block) ==
    PyDict(<< <<K_index, PyInt(block.index)>>,
              <<K_timestamp, PyFloat(block.timestamp)>>,
              <<K_transactions,
                PyList([i \in 1..Len(block.transactions) |->
                           TransactionDict(block.transactions[i])])>>,
              <<K_proof, PyInt(block.proof)>>,
              <<K_previous_hash, block.previous_hash>> >>)

JsonDumps(block) == JsonValue(BlockDict(block))

---------------------------------------------------------------------------
(* Digest. *)

HashModulus == DigestRange

RECURSIVE HexLen(_)
(* Number of hexadecimal digits of n. *)
HexLen(n) == IF n < 16 THEN 1 ELSE 1 + HexLen(n \div 16)

(* Width of the digest in hexadecimal digits (64 for SHA-256). *)
DigestHexLen == HexLen(HashModulus - 1)

RECURSIVE Sha256Fold(_, _, _)
(* The digest absorbs the bytes in order, h <- 13*h + byte + 7; the bytes  *)
(* lo..hi act on h as h <- a*h + c, returned as <<a, c>> (computed by      *)
(* halving, to keep the evaluation shallow).                               *)
Sha256Fold(bytes, lo, hi) ==
    IF lo > hi THEN <<1, 0>>
    ELSE IF lo = hi THEN <<13 % HashModulus, (bytes[lo] + 7) % HashModulus>>
    ELSE LET mid == (lo + hi) \div 2
             l == Sha256Fold(bytes, lo, mid)
             r == Sha256Fold(bytes, mid + 1, hi)
         IN  <<(l[1] * r[1]) % HashModulus,
               (r[1] * l[2] + r[2]) % HashModulus>>

(* The digest value: the bytes absorbed from the initial value 5, then a   *)
(* final mixing step.                                                      *)
Sha256(bytes) ==
    LET f == Sha256Fold(bytes, 1, Len(bytes))
        h == (f[1] * 5 + f[2]) % HashModulus
    IN  (h * h + (h \div 4) + 3 * h) % HashModulus

HexDigit(d) == IF d < 10 THEN 48 + d ELSE 87 + d

RECURSIVE HexWidth(_, _)
HexWidth(n, w) ==
    IF w = 0 THEN <<>> ELSE HexWidth(n \div 16, w - 1) \o <<HexDigit(n % 16)>>

(* hashlib.sha256(bytes).hexdigest(): fixed width, lowercase *)
HexDigest(bytes) == HexWidth(Sha256(bytes), DigestHexLen)

(* The prefix valid_proof compares with ("000000" of 64 digits in the      *)
(* program; one digit of DigestHexLen here).                               *)
DifficultyPrefix == <<48>>

(* Blockchain.hash *)
Hash(block) ==
    LET string_object == JsonDumps(block)
        block_string == Encode(string_object)
    IN  PyStr(HexDigest(block_string))

(* Blockchain.hash applied to a dict given by its items in insertion order. *)
HashItems(items) ==
    LET string_object == JsonValue(PyDict(items))
        block_string == Encode(string_object)
    IN  PyStr(HexDigest(block_string))

(* Orders in which the five keys of a block dict may have been inserted. *)
InsertionOrders == {<<1, 2, 3, 4, 5>>, <<5, 4, 3, 2, 1>>, <<3, 1, 5, 2, 4>>}

(* Blockchain.valid_proof *)
ValidProof(block_string, proof) ==
    LET guess == Encode(BytesRepr(block_string) \o Str(proof))
        guess_hash == HexDigest(guess)
    IN  SubSeq(guess_hash, 1, Len(DifficultyPrefix)) = DifficultyPrefix

---------------------------------------------------------------------------
(* The Blockchain object: self == [chain, current_transactions].  Each     *)
(* method is an operator that returns the object after the call and the    *)
(* value returned.                                                         *)

(* Blockchain.last_block *)
LastBlock(self) == self.chain[Len(self.chain)]

(* Variant: the link is always taken from the first block of the chain. *)
NewBlockDict_firstHash(self, proof, previous_hash, now) ==
    [index |-> Len(self.chain) + 1,
     timestamp |-> now,
     transactions |-> self.current_transactions,
     proof |-> proof,
     previous_hash |-> IF Len(self.chain) = 0 THEN previous_hash
                       ELSE Hash(self.chain[1])]

(* Variant: index is len(self.chain), without the + 1. *)
NewBlockDict_index0(self, proof, previous_hash, now) ==
    [index |-> Len(self.chain),
     timestamp |-> now,
     transactions |-> self.current_transactions,
     proof |-> proof,
     previous_hash |-> IF Truthy(previous_hash) THEN previous_hash
                       ELSE Hash(self.chain[Len(self.chain)])]

(* The dict literal of new_block; `x or y` evaluates y only when x is false. *)
NewBlockDict(self, proof, previous_hash, now) ==
    [index |-> Len(self.chain) + 1,
     timestamp |-> now,
     transactions |-> self.current_transactions,
     proof |-> proof,
     previous_hash |-> IF Truthy(previous_hash) THEN previous_hash
                       ELSE Hash(self.chain[Len(self.chain)])]

(* Variant: the block is inserted at the head of the chain. *)
NewBlock_front(self, proof, previous_hash, now) ==
    LET block == NewBlockDict(self, proof, previous_hash, now)
    IN  [self |-> [chain |-> <<block>> \o self.chain,
                   current_transactions |-> <<>>],
         ret |-> block]

(* Variant: the pool is reset before the block is built. *)
NewBlock_resetFirst(self, proof, previous_hash, now) ==
    LET block == NewBlockDict([chain |-> self.chain,
                               current_transactions |-> <<>>],
                              proof, previous_hash, now)
    IN  [self |-> [chain |-> Append(self.chain, block),
                   current_transactions |-> <<>>],
         ret |-> block]

(* Variant: the pool is not reset. *)
NewBlock_noReset(self, proof, previous_hash, now) ==
    LET block == NewBlockDict(self, proof, previous_hash, now)
    IN  [self |-> [chain |-> Append(self.chain, block),
                   current_transactions |-> self.current_transactions],
         ret |-> block]

(* Blockchain.new_block *)
NewBlock(self, proof, previous_hash, now) ==
    LET block == NewBlockDict(self, proof, previous_hash, now)
    IN  [self |-> [chain |-> Append(self.chain, block),
                   current_transactions |-> <<>>],
         ret |-> block]

(* Variant: the value returned is the last block's index, without + 1. *)
NewTransaction_hintLast(self, sender, recipient, amount, oid) ==
    LET transaction == [oid |-> oid, sender |-> sender,
                        recipient |-> recipient, amount |-> amount]
        appended == [chain |-> self.chain,
                     current_transactions |->
                         Append(self.current_transactions, transaction)]
    IN  [self |-> appended, ret |-> LastBlock(appended).index]

(* Variant: the transaction is inserted at the head of the pool. *)
NewTransaction_front(self, sender, recipient, amount, oid) ==
    LET transaction == [oid |-> oid, sender |-> sender,
                        recipient |-> recipient, amount |-> amount]
        inserted == [chain |-> self.chain,
                     current_transactions |->
                         <<transaction>> \o self.current_transactions]
    IN  [self |-> inserted, ret |-> LastBlock(inserted).index + 1]

(* Blockchain.new_transaction; oid is the identity of the dict it creates. *)
NewTransaction(self, sender, recipient, amount, oid) ==
    LET transaction == [oid |-> oid, sender |-> sender,
                        recipient |-> recipient, amount |-> amount]
        appended == [chain |-> self.chain,
                     current_transactions |->
                         Append(self.current_transactions, transaction)]
    IN  [self |-> appended, ret |-> LastBlock(appended).index + 1]

(* Variant: no genesis block is created. *)
Construct_noGenesis(now) == [chain |-> <<>>, current_transactions |-> <<>>]

(* Variant: the two arguments of the genesis call are exchanged. *)
Construct_swapped(now) ==
    NewBlock([chain |-> <<>>, current_transactions |-> <<>>],
             Sentinel.v, PyInt(GenesisProof), now).self

(* Blockchain.__init__ *)
Construct(now) ==
    NewBlock([chain |-> <<>>, current_transactions |-> <<>>],
             GenesisProof, Sentinel, now).self

Self == [chain |-> chain, current_transactions |-> current_transactions]

(* Names bound at module level when a request is handled. *)
ModuleGlobals ==
    {"hashlib", "json", "time", "uuid4", "Flask", "jsonify", "request",
     "Blockchain", "app", "node_identifier", "blockchain", "new_transaction",
     "last", "mine", "full_chain", "home"}

(* last(): GET /last_block; chain[-1] raises IndexError on an empty list. *)
LastRoute(self) ==
    IF Len(self.chain) = 0
    THEN [op |-> "last_block", status |-> 500, message |-> "IndexError"]
    ELSE [op |-> "last_block", status |-> 200, last_block |-> LastBlock(self)]

(* mine(): the answer when 'proof' or 'id' is missing from the body. *)
MineMissing(self) ==
    [self |-> self,
     response |-> [op |-> "mine", status |-> 400,
                   message |-> "Proof and ID required"]]

(* Variant: the reward is queued before the block is sealed. *)
MineForge_rewardFirst(self, proof, previous_hash, id, now, oid) ==
    LET r2 == NewTransaction(self, RewardSender, id, RewardAmount, oid)
        r1 == NewBlock(r2.self, proof, previous_hash, now)
        block == r1.ret
    IN  [self |-> r1.self,
         response |-> [op |-> "mine", status |-> 200,
                       message |-> "New Block Forged",
                       id |-> id,
                       index |-> block.index,
                       transactions |-> block.transactions,
                       proof |-> block.proof,
                       previous_hash |-> block.previous_hash],
         hint |-> r2.ret]

(* mine(): the branch taken when valid_proof accepts. *)
MineForge(self, proof, previous_hash, id, now, oid) ==
    LET r1 == NewBlock(self, proof, previous_hash, now)
        block == r1.ret
        r2 == NewTransaction(r1.self, RewardSender, id, RewardAmount, oid)
    IN  [self |-> r2.self,
         response |-> [op |-> "mine", status |-> 200,
                       message |-> "New Block Forged",
                       id |-> id,
                       index |-> block.index,
                       transactions |-> block.transactions,
                       proof |-> block.proof,
                       previous_hash |-> block.previous_hash],
         hint |-> r2.ret]

(* Variant: a rejected proof still empties the pool. *)
MineFailure_clear(self) ==
    [self |-> [chain |-> self.chain, current_transactions |-> <<>>],
     response |-> [op |-> "mine", status |-> 200, message |-> "FAILURE"]]

(* mine(): the branch taken when valid_proof rejects. *)
MineFailure(self) ==
    [self |-> self,
     response |-> [op |-> "mine", status |-> 200, message |-> "FAILURE"]]

---------------------------------------------------------------------------
(* State after `blockchain = Blockchain()`.  rewards is a history          *)
(* variable: for every accepted /mine, the index of the block it sealed    *)
(* and the identity of the reward transaction it queued.  hints is a       *)
(* history variable: for every transaction, the value new_transaction      *)
(* returned when it was queued.                                            *)

Init ==
    \E now \in Times :
        /\ chain = Construct(now).chain
        /\ current_transactions = Construct(now).current_transactions
        /\ response = [op |-> "__init__", status |-> 0]
        /\ nextOid = 1
        /\ rewards = {}
        /\ hints = <<>>
        /\ threads = <<>>
        /\ heap = <<>>

(* blockchain.new_transaction(sender, recipient, amount) called directly. *)
queue_transaction ==
    \E sender \in Senders, recipient \in Recipients, amount \in Amounts :
        /\ Len(current_transactions) < MaxPool
        /\ nextOid <= MaxOid
        /\ LET r == NewTransaction(Self, sender, recipient, amount, nextOid)
           IN  /\ chain' = r.self.chain
               /\ current_transactions' = r.self.current_transactions
               /\ response' = [op |-> "new_transaction", status |-> 0,
                               sender |-> sender, recipient |-> recipient,
                               amount |-> amount, ret |-> r.ret]
               /\ hints' = Append(hints, r.ret)
        /\ nextOid' = nextOid + 1
        /\ UNCHANGED <<rewards, conc>>

(* blockchain.new_block(proof, previous_hash) called directly. *)
seal_block ==
    \E proof \in SealProofs, now \in Times,
       previous_hash \in {PyNone, PyStr(<<97, 98>>)} :
        /\ Len(chain) < MaxChain
        /\ LET r == NewBlock(Self, proof, previous_hash, now)
           IN  /\ chain' = r.self.chain
               /\ current_transactions' = r.self.current_transactions
               /\ response' = [op |-> "new_block", status |-> 0,
                               arg |-> previous_hash, ret |-> r.ret]
        /\ UNCHANGED <<nextOid, rewards, hints, conc>>

(* POST /mine with body data; keys is the set of keys present in it.  The *)
(* clock is read only by new_block.                                        *)
mine ==
    \E keys \in SUBSET {"proof", "id"} :
        IF "proof" \notin keys \/ "id" \notin keys
        THEN /\ chain' = MineMissing(Self).self.chain
             /\ current_transactions' =
                    MineMissing(Self).self.current_transactions
             /\ response' = MineMissing(Self).response
             /\ UNCHANGED <<nextOid, rewards, hints, conc>>
        ELSE LET previous_hash == Hash(LastBlock(Self))
                 last_block_string == Encode(JsonDumps(LastBlock(Self)))
             IN  \E proof \in Proofs, id \in MinerIds :
                 IF ValidProof(last_block_string, proof)
                 THEN /\ Len(chain) < MaxChain
                      /\ nextOid <= MaxOid
                      /\ \E now \in Times :
                         LET r == MineForge(Self, proof, previous_hash, id,
                                            now, nextOid)
                         IN  /\ chain' = r.self.chain
                             /\ current_transactions' =
                                    r.self.current_transactions
                             /\ response' = r.response
                             /\ hints' = Append(hints, r.hint)
                      /\ nextOid' = nextOid + 1
                      /\ rewards' = rewards \cup
                             {[block |-> Len(chain) + 1, oid |-> nextOid]}
                      /\ UNCHANGED conc
                 ELSE /\ chain' = MineFailure(Self).self.chain
                      /\ current_transactions' =
                             MineFailure(Self).self.current_transactions
                      /\ response' = MineFailure(Self).response
                      /\ UNCHANGED <<nextOid, rewards, hints, conc>>

(* POST /transactions/new with body values; keys is the set of keys        *)
(* present.  The handler's first statement reads the global name           *)
(* `required`, which the module never binds: the generator expression      *)
(* evaluates its iterable when it is created, NameError is raised and      *)
(* Flask answers 500; the rest of the handler is never reached.            *)
new_transaction_route ==
    \E keys \in SUBSET {"sender", "recipient", "amount"} :
        /\ "required" \notin ModuleGlobals
        /\ response' = [op |-> "transactions/new", status |-> 500,
                        message |-> "NameError",
                        complete |-> (keys = {"sender", "recipient", "amount"})]
        /\ UNCHANGED <<chain, current_transactions, nextOid, rewards, hints,
                       conc>>

(* GET /last_block *)
last ==
    /\ response' = LastRoute(Self)
    /\ UNCHANGED <<chain, current_transactions, nextOid, rewards, hints, conc>>

(* blockchain.new_block(proof, previous_hash) called directly with a       *)
(* previous_hash that is supplied but false in a boolean context, or with  *)
(* the integer 1.                                                          *)
seal_block_supplied ==
    \E proof \in SealProofs, now \in Times,
       previous_hash \in {PyInt(0), PyStr(<<>>), PyInt(1)} :
        /\ Len(chain) < MaxChain
        /\ LET r == NewBlock(Self, proof, previous_hash, now)
           IN  /\ chain' = r.self.chain
               /\ current_transactions' = r.self.current_transactions
               /\ response' = [op |-> "new_block", status |-> 0,
                               arg |-> previous_hash, ret |-> r.ret]
        /\ UNCHANGED <<nextOid, rewards, hints, conc>>

(* blockchain.hash(block) called on a dict that has the fields of the last *)
(* block, inserted in the given order.                                     *)
hash_call ==
    \E order \in InsertionOrders :
        LET items == BlockDict(LastBlock(Self)).v
            block == [k \in 1..Len(items) |-> items[order[k]]]
        IN  /\ response' = [op |-> "hash", status |-> 0, order |-> order,
                            ret |-> HashItems(block)]
            /\ UNCHANGED <<chain, current_transactions, nextOid, rewards,
                           hints, conc>>

Next ==
    \/ queue_transaction
    \/ seal_block
    \/ mine
    \/ new_transaction_route
    \/ last

Spec == Init /\ [][Next]_vars

(* The ledger driven only through queue_transaction and /mine. *)
NextLedger ==
    \/ queue_transaction
    \/ mine
    \/ new_transaction_route

SpecLedger == Init /\ [][NextLedger]_vars

(* The Blockchain object called directly, without the routes. *)
NextCore ==
    \/ queue_transaction
    \/ seal_block
    \/ seal_block_supplied
    \/ hash_call

SpecCore == Init /\ [][NextCore]_vars

----------------------------------------------------------------------------
(* Request threads.  The server handles each request in a thread of its    *)
(* own and the code takes no lock, so the steps of the handlers            *)
(* interleave.  heap is the object graph: the list objects, which of them  *)
(* self.current_transactions is bound to, and the block dicts of           *)
(* self.chain, whose 'transactions' entry is a reference to a list object. *)
(* chain and current_transactions are kept equal to the values reached     *)
(* through these references.  threads holds, per request, the operation,   *)
(* the position in its code, its arguments and its local values.           *)

MaxThreads == 2

HeapChain(h) ==
    [i \in 1..Len(h.blocks) |->
        [h.blocks[i] EXCEPT !.transactions = h.lists[h.blocks[i].transactions]]]

HeapPool(h) == h.lists[h.pool]

(* The objects after Blockchain(): list 1 was bound to                     *)
(* current_transactions when the genesis block captured it, list 2 is the  *)
(* list bound by the reset of line 42.                                     *)
ConstructHeap(now) ==
    LET block == Construct(now).chain[1]
    IN  [lists |-> << <<>>, <<>> >>,
         pool |-> 2,
         blocks |-> << [block EXCEPT !.transactions = 1] >>]

InitThreads ==
    \E now \in Times :
        /\ heap = ConstructHeap(now)
        /\ chain = HeapChain(ConstructHeap(now))
        /\ current_transactions = HeapPool(ConstructHeap(now))
        /\ response = [op |-> "__init__", status |-> 0]
        /\ nextOid = 1
        /\ rewards = {}
        /\ hints = <<>>
        /\ threads = <<>>

Thread(op, pc, args) ==
    [op |-> op, pc |-> pc, args |-> args, ref |-> 0, oid |-> 0,
     previous_hash |-> PyNone, block |-> PyNone, ret |-> PyNone]

QueueRequests ==
    {Thread("queue", "load",
            [sender |-> sender, recipient |-> recipient, amount |-> amount]) :
        sender \in Senders, recipient \in Recipients, amount \in Amounts}

SealRequests ==
    {Thread("seal", "build", [proof |-> proof]) : proof \in SealProofs}

MineRequests ==
    {Thread("mine", "hash", [proof |-> proof, id |-> id]) :
        proof \in Proofs, id \in MinerIds}

ReadRequests ==
    {Thread("chain", "length", <<>>), Thread("last", "read", <<>>)}

(* What a step leaves alone when it touches no shared object. *)
Shared == <<chain, current_transactions, heap, nextOid>>

History == <<response, rewards, hints>>

At(t, pc) == t \in 1..Len(threads) /\ threads[t].pc = pc

Publish(h) ==
    /\ heap' = h
    /\ chain' = HeapChain(h)
    /\ current_transactions' = HeapPool(h)

(* A request arrives. *)
start_thread ==
    /\ Len(threads) < MaxThreads
    /\ \E th \in QueueRequests \cup SealRequests \cup MineRequests
                    \cup ReadRequests :
           threads' = Append(threads, th)
    /\ UNCHANGED <<Shared, History>>

(* The arguments new_transaction is called with: those of the request, or  *)
(* the reward of lines 185-189 in a /mine thread.                          *)
ThreadTransaction(th) ==
    IF th.op = "mine"
    THEN [sender |-> RewardSender, recipient |-> th.args.id,
          amount |-> RewardAmount]
    ELSE th.args

(* new_transaction, line 123: self.current_transactions is evaluated. *)
tx_load ==
    \E t \in 1..Len(threads) :
        /\ At(t, "load")
        /\ threads' = [threads EXCEPT ![t].ref = heap.pool,
                                      ![t].pc = "tx_append"]
        /\ UNCHANGED <<Shared, History>>

(* Variant: the list is emptied of its earlier entries. *)
ListAppend_replace(lists, ref, transaction) ==
    [lists EXCEPT ![ref] = <<transaction>>]

(* list.append on the list object ref. *)
ListAppend(lists, ref, transaction) ==
    [lists EXCEPT ![ref] = Append(@, transaction)]

(* new_transaction, lines 120-123: append on the list evaluated before. *)
tx_append ==
    \E t \in 1..Len(threads) :
        /\ At(t, "tx_append")
        /\ LET a == ThreadTransaction(threads[t])
               transaction == [oid |-> nextOid, sender |-> a.sender,
                               recipient |-> a.recipient, amount |-> a.amount]
           IN  Publish([heap EXCEPT
                   !.lists = ListAppend(@, threads[t].ref, transaction)])
        /\ threads' = [threads EXCEPT ![t].oid = nextOid,
                                      ![t].pc = "tx_return"]
        /\ nextOid' = nextOid + 1
        /\ UNCHANGED History

(* new_transaction, line 125: self.last_block['index'] + 1 is returned. *)
tx_return ==
    \E t \in 1..Len(threads) :
        /\ At(t, "tx_return")
        /\ threads' = [threads EXCEPT ![t].ret = LastBlock(Self).index + 1,
                                      ![t].pc = "done"]
        /\ UNCHANGED <<Shared, History>>

(* new_block, lines 33-39: the dict display; its 'transactions' entry is   *)
(* the list current_transactions is bound to.                              *)
blk_build ==
    \E t \in 1..Len(threads), now \in Times :
        /\ At(t, "build")
        /\ LET block == NewBlockDict(Self, threads[t].args.proof,
                                     threads[t].previous_hash, now)
           IN  threads' = [threads EXCEPT
                   ![t].block = [block EXCEPT !.transactions = heap.pool],
                   ![t].pc = "reset"]
        /\ UNCHANGED <<Shared, History>>

(* Variant: the list is emptied in place and stays bound. *)
ResetPool_clear(h) == [h EXCEPT !.lists[h.pool] = <<>>]

(* Line 42: current_transactions is bound to a new empty list. *)
ResetPool(h) ==
    [h EXCEPT !.lists = Append(@, <<>>), !.pool = Len(h.lists) + 1]

blk_reset ==
    \E t \in 1..Len(threads) :
        /\ At(t, "reset")
        /\ Publish(ResetPool(heap))
        /\ threads' = [threads EXCEPT ![t].pc = "append"]
        /\ UNCHANGED <<nextOid, History>>

(* Line 45: self.chain.append(block); a /mine thread goes on to queue the  *)
(* reward.                                                                 *)
blk_append ==
    \E t \in 1..Len(threads) :
        /\ At(t, "append")
        /\ Publish([heap EXCEPT !.blocks = Append(@, threads[t].block)])
        /\ threads' = [threads EXCEPT
               ![t].pc = IF threads[t].op = "mine" THEN "load" ELSE "done"]
        /\ UNCHANGED <<nextOid, History>>

(* mine, line 177: previous_hash = blockchain.hash(blockchain.last_block) *)
mine_hash ==
    \E t \in 1..Len(threads) :
        /\ At(t, "hash")
        /\ threads' = [threads EXCEPT
               ![t].previous_hash = Hash(LastBlock(Self)),
               ![t].pc = "check"]
        /\ UNCHANGED <<Shared, History>>

(* mine, lines 178-182 and 200: the last block is serialised and the proof *)
(* tested against it.                                                      *)
mine_check ==
    \E t \in 1..Len(threads) :
        /\ At(t, "check")
        /\ LET last_block_string == Encode(JsonDumps(LastBlock(Self)))
           IN  IF ValidProof(last_block_string, threads[t].args.proof)
               THEN threads' = [threads EXCEPT ![t].pc = "build"]
               ELSE threads' = [threads EXCEPT
                        ![t].ret = [message |-> "FAILURE"],
                        ![t].pc = "done"]
        /\ UNCHANGED <<Shared, History>>

(* full_chain, line 206: len(blockchain.chain) *)
chain_length ==
    \E t \in 1..Len(threads) :
        /\ At(t, "length")
        /\ threads' = [threads EXCEPT
               ![t].ret = [length |-> Len(heap.blocks)],
               ![t].pc = "body"]
        /\ UNCHANGED <<Shared, History>>

(* full_chain, lines 207-209: the chain list is serialised. *)
chain_body ==
    \E t \in 1..Len(threads) :
        /\ At(t, "body")
        /\ threads' = [threads EXCEPT
               ![t].ret = [length |-> threads[t].ret.length,
                           chain |-> HeapChain(heap)],
               ![t].pc = "done"]
        /\ UNCHANGED <<Shared, History>>

(* last, line 155: blockchain.last_block *)
last_read ==
    \E t \in 1..Len(threads) :
        /\ At(t, "read")
        /\ threads' = [threads EXCEPT
               ![t].ret = [last_block |-> LastBlock(Self)],
               ![t].pc = "done"]
        /\ UNCHANGED <<Shared, History>>

NextThreads ==
    \/ start_thread
    \/ tx_load
    \/ tx_append
    \/ tx_return
    \/ blk_build
    \/ blk_reset
    \/ blk_append
    \/ mine_hash
    \/ mine_check
    \/ chain_length
    \/ chain_body
    \/ last_read

SpecThreads == InitThreads /\ [][NextThreads]_vars

(* Requests that queue a transaction arrive while no block is being        *)
(* sealed.                                                                 *)
start_queue ==
    /\ Len(threads) < MaxThreads
    /\ \A t \in 1..Len(threads) : threads[t].op = "queue"
    /\ \E th \in QueueRequests : threads' = Append(threads, th)
    /\ UNCHANGED <<Shared, History>>

(* One new_block call starts once every queuing request has returned. *)
start_seal ==
    /\ \A t \in 1..Len(threads) :
           threads[t].op = "queue" /\ threads[t].pc = "done"
    /\ \E th \in SealRequests : threads' = Append(threads, th)
    /\ UNCHANGED <<Shared, History>>

NextQueueSeal ==
    \/ start_queue
    \/ start_seal
    \/ tx_load
    \/ tx_append
    \/ tx_return
    \/ blk_build
    \/ blk_reset
    \/ blk_append

SpecQueueSeal == InitThreads /\ [][NextQueueSeal]_vars

TypeOK ==
    /\ Len(chain) \in 1..MaxChain
    /\ Len(current_transactions) \in 0..MaxPool
    /\ nextOid \in 1..(MaxOid + 1)

---------------------------------------------------------------------------
(* Properties. *)

Forged(r) == r.op = "mine" /\ r.message = "New Block Forged"

Rejected(r) == r.op = "mine" /\ r.message = "FAILURE"

Oids(txs) == {txs[k].oid : k \in 1..Len(txs)}

RECURSIVE ChainTransactions(_)
(* The transactions of all the blocks of ch, in chain order. *)
ChainTransactions(ch) ==
    IF Len(ch) = 0 THEN <<>>
    ELSE ChainTransactions(SubSeq(ch, 1, Len(ch) - 1))
         \o ch[Len(ch)].transactions

(* C1: driven by queue_transaction and /mine only, every block after the   *)
(* first holds as previous_hash the hash of the block before it, computed  *)
(* on that block as it is now, and never the genesis sentinel.             *)
C1_HashLinked ==
    \A i \in 2..Len(chain) :
        /\ chain[i].previous_hash = Hash(chain[i - 1])
        /\ chain[i].previous_hash # Sentinel

W1_TwoMinedBlocks ==
    /\ Len(chain) = 3
    /\ chain[2].transactions # <<>>
    /\ chain[3].previous_hash = Hash(chain[2])

(* C2: the block at the i-th place of the chain (counting from 1) has      *)
(* index i, and no two blocks have the same index.                         *)
C2_IndexIsPosition ==
    /\ \A i \in 1..Len(chain) : chain[i].index = i
    /\ \A i, j \in 1..Len(chain) : i # j => chain[i].index # chain[j].index

W2_ThreeBlocks == Len(chain) = 3 /\ response.op = "new_block"

(* C3: a step of new_block or an accepted /mine makes the chain one block  *)
(* longer and the new block's index is the old length plus 1; every other  *)
(* step (queueing, a rejected /mine, a failed request) keeps the length.   *)
C3_LengthStep ==
    [][IF response'.op = "new_block" \/ Forged(response')
       THEN /\ Len(chain') = Len(chain) + 1
            /\ chain'[Len(chain')].index = Len(chain) + 1
       ELSE Len(chain') = Len(chain)]_vars

W3_MinedThird == Forged(response) /\ response.index = 3

(* C4: right after construction there is one block, with index 1, proof    *)
(* 100, the sentinel as previous_hash and no transactions, and the pool    *)
(* is empty.                                                               *)
C4_Genesis ==
    response.op = "__init__" =>
        /\ Len(chain) = 1
        /\ chain[1].index = 1
        /\ chain[1].proof = 100
        /\ chain[1].previous_hash = Sentinel
        /\ chain[1].transactions = <<>>
        /\ current_transactions = <<>>

W4_Constructed == response.op = "__init__" /\ Len(chain) = 1

(* C5: new_block returns and appends a block whose transactions are the    *)
(* pool as it was when the call began, in the same order, and leaves the   *)
(* pool empty.                                                             *)
C5_SealCapturesPool ==
    [][response'.op = "new_block" =>
          /\ response'.ret.transactions = current_transactions
          /\ chain' = Append(chain, response'.ret)
          /\ current_transactions' = <<>>]_vars

W5_SealedTwo ==
    /\ response.op = "new_block"
    /\ Len(response.ret.transactions) = 2
    /\ current_transactions = <<>>

(* C6: a /mine step answered FAILURE changes neither the chain nor the     *)
(* pool, and a /mine step that forges a block was given a proof that       *)
(* valid_proof accepts for the block that was last before the step.        *)
C6_RejectedLeavesState ==
    [][/\ Rejected(response') =>
              /\ chain' = chain
              /\ current_transactions' = current_transactions
       /\ Forged(response') =>
              ValidProof(Encode(JsonDumps(chain[Len(chain)])),
                         response'.proof)]_vars

W6_RejectedWithPending ==
    /\ Rejected(response)
    /\ Len(chain) = 2
    /\ Len(current_transactions) = 2

(* C7: after an accepted /mine the pool is exactly the reward transaction  *)
(* just created (sender "0", recipient the miner id, amount 1), the block  *)
(* just sealed does not hold that transaction, and every reward is held    *)
(* by the pool until the next block is sealed and by that block after.     *)
C7_RewardNextBlock ==
    /\ Forged(response) =>
           /\ current_transactions =
                  <<[oid |-> nextOid - 1, sender |-> RewardSender,
                     recipient |-> response.id, amount |-> 1]>>
           /\ response.transactions = chain[Len(chain)].transactions
           /\ (nextOid - 1) \notin Oids(response.transactions)
    /\ \A r \in rewards :
           /\ r.oid \notin Oids(chain[r.block].transactions)
           /\ IF Len(chain) > r.block
              THEN r.oid \in Oids(chain[r.block + 1].transactions)
              ELSE r.oid \in Oids(current_transactions)

W7_RewardSealedNext ==
    /\ Forged(response)
    /\ \E r \in rewards :
           /\ r.block + 1 = Len(chain)
           /\ r.oid \in Oids(response.transactions)

(* C8: new_transaction adds one transaction with the given sender,         *)
(* recipient and amount at the end of the pool, keeps the entries that     *)
(* were there and the chain, and returns the last block's index plus 1.    *)
C8_QueueAppends ==
    [][response'.op = "new_transaction" =>
          /\ chain' = chain
          /\ Len(current_transactions') = Len(current_transactions) + 1
          /\ SubSeq(current_transactions', 1, Len(current_transactions))
                 = current_transactions
          /\ LET t == current_transactions'[Len(current_transactions')]
             IN  /\ t.sender = response'.sender
                 /\ t.recipient = response'.recipient
                 /\ t.amount = response'.amount
          /\ response'.ret = chain[Len(chain)].index + 1]_vars

W8_QueuedSecond ==
    /\ response.op = "new_transaction"
    /\ Len(current_transactions) = 2
    /\ Len(chain) = 2

(* C9: a POST /transactions/new with sender, recipient and amount is       *)
(* answered 200 and adds a transaction to the pool; one with a field       *)
(* missing is answered 400 and changes neither the chain nor the pool.     *)
C9_RouteValidates ==
    [][response'.op = "transactions/new" =>
          IF response'.complete
          THEN /\ response'.status = 200
               /\ Len(current_transactions') = Len(current_transactions) + 1
               /\ chain' = chain
          ELSE /\ response'.status = 400
               /\ chain' = chain
               /\ current_transactions' = current_transactions]_vars

(* C10: every transaction created by new_transaction is held exactly once, *)
(* by the pool or by one block, and nothing else is held.                  *)
C10_EachQueuedOnce ==
    LET held == ChainTransactions(chain) \o current_transactions
    IN  /\ \A o \in 1..(nextOid - 1) :
               Cardinality({k \in 1..Len(held) : held[k].oid = o}) = 1
        /\ Oids(held) = 1..(nextOid - 1)

W10_SpreadOverBlocks ==
    /\ chain[Len(chain)].transactions # <<>>
    /\ Len(chain) = 3
    /\ chain[2].transactions # <<>>
    /\ current_transactions # <<>>

(* The predicate as the specification words it: the digest of the bytes   *)
(* of the representation followed by the decimal text of the proof.        *)
ClaimedValidProof(block_string, proof) ==
    LET guess == block_string \o Encode(Str(proof))
        guess_hash == HexDigest(guess)
    IN  SubSeq(guess_hash, 1, Len(DifficultyPrefix)) = DifficultyPrefix

(* C14: for the representation of the last block and every proof,          *)
(* valid_proof answers as the digest of the representation's bytes         *)
(* followed by str(proof), and of nothing else, decides.                   *)
C14_PreimageIsReprThenProof ==
    LET last_block_string == Encode(JsonDumps(chain[Len(chain)]))
    IN  \A proof \in Proofs :
            ValidProof(last_block_string, proof)
                <=> ClaimedValidProof(last_block_string, proof)

(* C15: hash returns the same digest for a dict with the fields of the     *)
(* last block whatever the order its keys were inserted in, and a call of  *)
(* hash changes neither the chain nor the pool.                            *)
C15_HashDeterministic ==
    [][response'.op = "hash" =>
          /\ response'.ret = Hash(chain[Len(chain)])
          /\ chain' = chain
          /\ current_transactions' = current_transactions]_vars

W15_HashedReordered ==
    /\ response.op = "hash"
    /\ response.order = <<3, 1, 5, 2, 4>>
    /\ Len(chain) = 2
    /\ Len(chain[2].transactions) = 2

(* C16: the chain is never empty, and GET /last_block succeeds and answers *)
(* the block at the end of the chain.                                      *)
C16_ChainNonEmpty ==
    /\ Len(chain) >= 1
    /\ response.op = "last_block" =>
           /\ response.status = 200
           /\ response.last_block = chain[Len(chain)]

W16_LastOfThree == response.op = "last_block" /\ Len(chain) = 3

(* C17: new_block stores the previous_hash it was given, whatever the      *)
(* value, and the hash of the block before only when none was given.       *)
C17_StoresGivenValue ==
    response.op = "new_block" =>
        response.ret.previous_hash =
            IF response.arg = PyNone
            THEN Hash(chain[Len(chain) - 1])
            ELSE response.arg

(* C19: every transaction held by a block was queued with a returned       *)
(* value equal to that block's index, rewards included.                    *)
C19_HintIsBlockIndex ==
    \A i \in 1..Len(chain) :
        \A k \in 1..Len(chain[i].transactions) :
            hints[chain[i].transactions[k].oid] = chain[i].index

W19_RewardAndQueued ==
    /\ Len(chain) = 3
    /\ chain[2].transactions # <<>>
    /\ \E r \in rewards : r.oid \in Oids(chain[3].transactions)
    /\ response.op = "new_block"

Finished(t) ==
    /\ t \in 1..Len(threads)
    /\ threads[t].pc # "done"
    /\ threads'[t].pc = "done"

(* C11: when the one new_block call that started after every queuing       *)
(* request had returned is done, the block it appended holds the           *)
(* transaction of each of those requests exactly once and nothing else,    *)
(* and the pool is empty.                                                  *)
C11_QueuedThenSealed ==
    \A s \in 1..Len(threads) :
        threads[s].op = "seal" /\ threads[s].pc = "done" =>
            LET transactions == chain[Len(chain)].transactions
                queued == {q \in 1..Len(threads) : threads[q].op = "queue"}
            IN  /\ Len(transactions) = Cardinality(queued)
                /\ \A q \in queued :
                       Cardinality({k \in 1..Len(transactions) :
                           transactions[k] =
                               [oid |-> threads[q].oid,
                                sender |-> threads[q].args.sender,
                                recipient |-> threads[q].args.recipient,
                                amount |-> threads[q].args.amount]}) = 1
                /\ current_transactions = <<>>

W11_TwoQueuedSealed ==
    /\ Len(threads) = 3
    /\ threads[3].op = "seal"
    /\ threads[3].pc = "done"
    /\ Len(chain[2].transactions) = 2

(* C12: under every interleaving of the requests each block's index is its *)
(* position, each block after the first links to the hash of the block     *)
(* before it, and no two blocks have the same index or the same            *)
(* previous_hash.                                                          *)
C12_SerializedChain ==
    /\ \A i \in 1..Len(chain) :
           /\ chain[i].index = i
           /\ i > 1 => chain[i].previous_hash = Hash(chain[i - 1])
    /\ \A i, j \in 1..Len(chain) :
           i # j => /\ chain[i].index # chain[j].index
                    /\ chain[i].previous_hash # chain[j].previous_hash

(* C13: the length GET /chain answers is the number of blocks it answers,  *)
(* and GET /last_block answers the final block of the chain.               *)
C13_ConsistentSnapshot ==
    [][\A t \in 1..Len(threads) :
          Finished(t) =>
              /\ threads[t].op = "chain" =>
                     threads'[t].ret.length = Len(threads'[t].ret.chain)
              /\ threads[t].op = "last" =>
                     threads'[t].ret.last_block = chain[Len(chain)]]_vars

(* C18: no step removes, moves or changes a block that is in the chain,    *)
(* and no block in the chain shares its transactions list with the pool.   *)
C18_BlocksImmutable ==
    [][/\ Len(chain') >= Len(chain)
       /\ \A i \in 1..Len(chain) : chain'[i] = chain[i]
       /\ \A i \in 1..Len(heap'.blocks) :
              heap'.blocks[i].transactions # heap'.pool]_vars

=============================================================================
